---------------------------- MODULE Spec2Model ----------------------------
(***************************************************************************)
(* A model of splay, the small jukebox of mccoyst/splay: the matcher       *)
(* (clean, match), the selector (find), the locators (LocateArtist,        *)
(* LocateAlbum, locate) and the sequencers (artist.doPerAlbum,             *)
(* album.doPerSong) with their Play and List consumers.                    *)
(*                                                                         *)
(* A Go string is a sequence of one-character strings; a path is the       *)
(* sequence of its components (filepath.Join appends one); a directory     *)
(* entry (os.FileInfo) is a record [name, isDir].  Indices returned by     *)
(* find are Go's, counted from 0.                                          *)
(*                                                                         *)
(* Four specifications share the variables:                                *)
(*   SpecMatch   match on any pattern and name                             *)
(*   SpecFind    find on any entry list and pattern                        *)
(*   SpecLocate  locate, LocateArtist, LocateAlbum                         *)
(*   Spec        Play and List of an artist or an album                    *)
(***************************************************************************)
EXTENDS Integers, Sequences, FiniteSets, TLC

VARIABLES
    pc,         \* position of the running operation
    pattern,    \* the pattern argument (match, find, locate)
    name,       \* match: the candidate name s
    score,      \* match: the returned score
    fi,         \* find: the entry list
    loc,        \* find: the returned index
    byartist,   \* flag -artist
    byalbum,    \* flag -album
    la,         \* locate: what LocateArtist returned, [m, err]
    artists,    \* LocateArtist: the artists listed under the music folder
    aartists,   \* LocateAlbum: the artists listed under the music folder
    k,          \* LocateAlbum: the artists its loop has processed
    allalbums,  \* LocateAlbum: the album entries collected
    allnames,   \* LocateAlbum: the album paths collected
    ret,        \* what the running operation returned, [m, err]
    listed,     \* history: the album listing read for each processed artist
    trail,      \* history: the functions locate has called, in order
    m,          \* the Music object that is played or listed
    op,         \* "Play" or "List"
    start,      \* flag -from: the pattern to start from
    tracks,     \* flag -tracks: print each track before it is played
    albums,     \* doPerAlbum: its slice of albums
    i,          \* doPerAlbum: the position of its shuffle loop
    sel,        \* doPerAlbum: the index find returned
    ai,         \* doPerAlbum: the albums its last loop has done
    cur,        \* the album whose Play or List is running
    astart,     \* doPerSong: its start argument
    songs,      \* doPerSong: the songs listed
    ssel,       \* doPerSong: the index find returned
    si,         \* doPerSong: the position of its loop
    aret,       \* the error the album's Play or List returned
    perr,       \* the error the operation on m returned
    running,    \* the file the player process is running on, or <<>>
    stdout,     \* the last line printed
    listing,    \* history: the entries of m (albums or songs) as listed
    shuffled,   \* history: the albums as shuffled, before the rotation
    albumCalls, \* history: the albums handed to doPerAlbum's callback
    songCalls,  \* history: the songs handed to the callback by this doPerSong
    failed      \* history: a player invocation has failed

matchVars  == <<name, score>>
findVars   == <<fi, loc>>
locateVars == <<byartist, byalbum, la, artists, aartists, k, allalbums,
                allnames, listed, trail>>
playVars   == <<m, op, start, tracks, albums, i, sel, ai, cur, astart, songs,
                ssel, si, aret, perr, running, stdout, listing, shuffled,
                albumCalls, songCalls, failed>>
vars       == <<pc, pattern, ret, matchVars, findVars, locateVars, playVars>>

---------------------------------------------------------------------------
(* Bounds of the model. *)

\* longest pattern and name drawn for match
MaxLen == 3
\* longest entry list drawn for find
MaxFi == 2
\* most entries a directory holds
MaxEntries == 3

---------------------------------------------------------------------------
(* Runes: the classes of package unicode on the characters the model uses. *)

UpperLetters == {"A", "B", "D", "M", "S"}
LowerLetters == {"a", "b", "c", "d", "e", "i", "m", "o", "r", "s", "t", "u"}

IsLetter(r) == r \in UpperLetters \cup LowerLetters
IsDigit(r)  == r \in {"1", "2"}
IsSpace(r)  == r = " "

ToLowerRune(r) ==
    CASE r = "A" -> "a"
      [] r = "B" -> "b"
      [] r = "D" -> "d"
      [] r = "M" -> "m"
      [] r = "S" -> "s"
      [] OTHER   -> r

\* strings.ToLower
ToLower(s) == [j \in 1..Len(s) |-> ToLowerRune(s[j])]

\* strings.Contains
Contains(s, substr) ==
    \E j \in 0..(Len(s) - Len(substr)) : SubSeq(s, j + 1, j + Len(substr)) = substr

---------------------------------------------------------------------------
(* The matcher. *)

cleanKeeps(r) == IsLetter(r) \/ IsDigit(r) \/ IsSpace(r)

\* clean returns s without any non-alphanumeric runes.
clean(s) == SelectSeq(s, cleanKeeps)

\* variant of match: the pattern is not lowercased
matchNoFold(pat, s) ==
    LET s1 == clean(ToLower(s))
        p1 == clean(pat)
        d  == Len(s1) - Len(p1)
    IN  IF ~Contains(s1, p1) THEN -1
        ELSE IF d < 0 THEN -d ELSE d

\* match returns a non-negative score iff s fits the pattern, a negative
\* value otherwise.
match(pat, s) ==
    LET s1 == clean(ToLower(s))
        p1 == clean(ToLower(pat))
        d  == Len(s1) - Len(p1)
    IN  IF ~Contains(s1, p1) THEN -1
        ELSE IF d < 0 THEN -d ELSE d

---------------------------------------------------------------------------
(* The selector. *)

\* best := 9999
best0 == 9999

RECURSIVE findLoop(_, _, _, _, _)
\* the loop of find, about to look at f[j] (positions from 1); sc is the
\* score m of the code, l its loc
findLoop(f, pat, j, best, l) ==
    IF j > Len(f) THEN l
    ELSE LET sc == match(pat, f[j].name)
         IN  IF sc < 0 THEN findLoop(f, pat, j + 1, best, l)
             ELSE IF sc < best THEN findLoop(f, pat, j + 1, sc, j - 1)
             ELSE findLoop(f, pat, j + 1, best, l)

\* variant of find: 0 when nothing matches, as its comment has it
findOrZero(f, pat) ==
    LET l == IF pat = <<>> THEN 0 ELSE findLoop(f, pat, 1, best0, -1)
    IN  IF l < 0 THEN 0 ELSE l

\* find returns the index into fi of the FileInfo matching the pattern
find(f, pat) ==
    IF pat = <<>> THEN 0 ELSE findLoop(f, pat, 1, best0, -1)

---------------------------------------------------------------------------
(* Values: errors, Music objects, paths, directory entries. *)

Nil == [kind |-> "nil", arg |-> <<>>]
\* an error value: what failed and on what
Err(kind, arg) == [kind |-> kind, arg |-> arg]

\* no Music (a nil interface)
NilMusic == [kind |-> "nil", path |-> <<>>, showName |-> FALSE]
\* &artist{path}; an artist has no showName, the field is kept for the shape
newArtist(path) == [kind |-> "artist", path |-> path, showName |-> FALSE]
\* &album{path, showName}
newAlbum(path, showName) == [kind |-> "album", path |-> path, showName |-> showName]

\* a pair (Music, error) returned by a locator
Return(mu, e) == [m |-> mu, err |-> e]

\* filepath.Join(path, name), name a single component
Join(path, n) == Append(path, n)

Dir(n)  == [name |-> n, isDir |-> TRUE]
File(n) == [name |-> n, isDir |-> FALSE]

\* usr.HomeDir
HomeDir == << <<"h">> >>
\* musicloc: <home>/Music
MusicLoc == Join(HomeDir, <<"M", "u", "s", "i", "c">>)

DSStore == <<".", "D", "S", "_", "S", "t", "o", "r", "e">>

\* contents keeps the entries accept takes, in the order Readdir gave them;
\* accept is a function on the entries read
contents(raw, accept) == SelectSeq(raw, LAMBDA f : accept[f])

isDirEntry(f) == f.isDir
isSongEntry(f) == ~f.isDir /\ f.name # DSStore

Range(s) == {s[j] : j \in 1..Len(s)}

\* subDirs: the directories under a path
subDirs(raw) == contents(raw, [f \in Range(raw) |-> isDirEntry(f)])

\* subFiles: the files under a path, .DS_Store left out
subFiles(raw) == contents(raw, [f \in Range(raw) |-> isSongEntry(f)])

---------------------------------------------------------------------------
(* Inputs. *)

RECURSIVE SeqsUpTo(_, _)
\* the sequences over S of length at most n
SeqsUpTo(S, n) ==
    IF n = 0 THEN {<<>>}
    ELSE LET T == SeqsUpTo(S, n - 1)
         IN  T \cup {Append(t, x) : t \in {u \in T : Len(u) = n - 1}, x \in S}

\* what Readdir may give for a directory that holds some of the entries of
\* S: at most MaxEntries of them, each once, in any order
Readdir(S) == {s \in SeqsUpTo(S, MaxEntries) : Cardinality(Range(s)) = Len(s)}

MatchAlphabet == {"A", "a", "b", "&", " "}
MatchStrings  == SeqsUpTo(MatchAlphabet, MaxLen)

\* a name so long that its score against a one-rune pattern reaches best0
LongName == [j \in 1..(best0 + 1) |-> "a"]

FindNames ==
    { <<"a">>, <<"A", "b">>, <<"a", "&", "b">>, <<"b", " ", "a">>, <<"&">>, LongName }
FindPatterns ==
    { <<>>, <<"a">>, <<"A", "B">>, <<"b">>, <<"&">>, <<"1">> }
FindLists == SeqsUpTo({Dir(n) : n \in FindNames}, MaxFi)

\* what the music folder may hold: two artists and a stray file
MusicEntries == { Dir(<<"A", "b">>), Dir(<<"a">>), File(<<"a", "b">>) }
\* what an artist's folder may hold: three albums and a stray file
ArtistEntries ==
    { Dir(<<"a">>), Dir(<<"b", "1">>), Dir(<<"A", "&", "b">>), File(<<"1">>) }
LocatePatterns == { <<>>, <<"a">>, <<"1">>, <<"2">>, <<"a", "b">> }
\* what an album's folder may hold: three songs, .DS_Store and a folder
SongEntries ==
    { File(<<"a", ".", "m">>), File(<<"b", ".", "m">>), File(<<"a", "b">>),
      File(DSStore), Dir(<<"a">>) }
StartPatterns == { <<>>, <<"a">>, <<"b">>, <<"2">> }

\* the results of subDirs on the music folder, on an artist's folder, and
\* of subFiles on an album's folder
ArtistListings == {subDirs(raw) : raw \in Readdir(MusicEntries)}
AlbumListings  == {subDirs(raw) : raw \in Readdir(ArtistEntries)}
SongListings   == {subFiles(raw) : raw \in Readdir(SongEntries)}

---------------------------------------------------------------------------
(* Values of the variables an operation does not use. *)

IdleMatch == name = <<>> /\ score = 0
IdleFind  == fi = <<>> /\ loc = 0
IdleLocate ==
    /\ byartist = TRUE /\ byalbum = FALSE
    /\ la = Return(NilMusic, Nil)
    /\ artists = <<>> /\ aartists = <<>> /\ k = 0
    /\ allalbums = <<>> /\ allnames = <<>>
    /\ listed = <<>> /\ trail = <<>>
    /\ ret = Return(NilMusic, Nil)
IdlePlay ==
    /\ m = NilMusic /\ op = "List" /\ start = <<>> /\ tracks = FALSE
    /\ albums = <<>> /\ i = 0 /\ sel = 0 /\ ai = 0
    /\ cur = NilMusic /\ astart = <<>> /\ songs = <<>> /\ ssel = 0 /\ si = 0
    /\ aret = Nil /\ perr = Nil /\ running = <<>> /\ stdout = <<>>
    /\ listing = <<>> /\ shuffled = <<>>
    /\ albumCalls = <<>> /\ songCalls = <<>> /\ failed = FALSE

---------------------------------------------------------------------------
(* match, called on any pattern and name. *)

InitMatch ==
    /\ pc = "match"
    /\ pattern \in MatchStrings
    /\ name \in MatchStrings
    /\ score = 0
    /\ IdleFind /\ IdleLocate /\ IdlePlay

CallMatch ==
    /\ pc = "match"
    /\ score' = match(pattern, name)
    /\ pc' = "matched"
    /\ UNCHANGED <<pattern, name, ret, findVars, locateVars, playVars>>

NextMatch == CallMatch

SpecMatch == InitMatch /\ [][NextMatch]_vars

---------------------------------------------------------------------------
(* find, called on any entry list and pattern. *)

InitFind ==
    /\ pc = "find"
    /\ pattern \in FindPatterns
    /\ fi \in FindLists
    /\ loc = 0
    /\ IdleMatch /\ IdleLocate /\ IdlePlay

CallFind ==
    /\ pc = "find"
    /\ loc' = find(fi, pattern)
    /\ pc' = "found"
    /\ UNCHANGED <<pattern, fi, ret, matchVars, locateVars, playVars>>

NextFind == CallFind

SpecFind == InitFind /\ [][NextFind]_vars

---------------------------------------------------------------------------
(* locate, with LocateArtist and LocateAlbum.  Every directory is read     *)
(* when the code reads it: the listing is an input of that step.           *)

InitLocate ==
    /\ pc = "locate"
    /\ pattern \in LocatePatterns
    /\ byartist \in BOOLEAN /\ byalbum \in BOOLEAN
    /\ la = Return(NilMusic, Nil)
    /\ artists = <<>> /\ aartists = <<>> /\ k = 0
    /\ allalbums = <<>> /\ allnames = <<>>
    /\ listed = <<>> /\ trail = <<>>
    /\ ret = Return(NilMusic, Nil)
    /\ IdleMatch /\ IdleFind /\ IdlePlay

\* variant of artistFirst: the album flag is not looked at
artistFirstAlways(ba, bl) == ba

\* if *byartist && !*byalbum
artistFirst(ba, bl) == ba /\ ~bl

\* locate: artists first, unless the flags say otherwise
LocateEnter ==
    /\ pc = "locate"
    /\ pc' = IF artistFirst(byartist, byalbum) THEN "LocateArtist" ELSE "LocateAlbum"
    /\ UNCHANGED <<pattern, ret, matchVars, findVars, locateVars, playVars>>

\* LocateArtist: list the artists, find the pattern among them
LocateArtist ==
    /\ pc = "LocateArtist"
    /\ trail' = Append(trail, "LocateArtist")
    /\ \/ \* musicloc fails
          /\ la' = Return(NilMusic, Err("user", <<>>))
          /\ artists' = artists
          /\ pc' = "located"
       \/ \* subDirs(mloc) fails
          /\ la' = Return(NilMusic, Err("io", MusicLoc))
          /\ artists' = artists
          /\ pc' = "located"
       \/ \E as \in ArtistListings :
            LET ix == find(as, pattern)
            IN  /\ artists' = as
                /\ IF ix < 0
                   THEN la' = Return(NilMusic, Nil) /\ pc' = "located"
                   ELSE IF ix >= Len(as)
                   THEN la' = la /\ pc' = "panic"   \* artists[i]: index out of range
                   ELSE /\ la' = Return(newArtist(Join(MusicLoc, as[ix + 1].name)), Nil)
                        /\ pc' = "located"
    /\ UNCHANGED <<pattern, ret, byartist, byalbum, aartists, k, allalbums,
                   allnames, listed, matchVars, findVars, playVars>>

\* locate, after LocateArtist returned
LocateCheck ==
    /\ pc = "located"
    /\ IF la.err # Nil
       THEN ret' = Return(NilMusic, la.err) /\ pc' = "returned"
       ELSE IF la.m # NilMusic
       THEN ret' = Return(la.m, Nil) /\ pc' = "returned"
       ELSE ret' = ret /\ pc' = "LocateAlbum"
    /\ UNCHANGED <<pattern, matchVars, findVars, locateVars, playVars>>

\* LocateAlbum, up to its loop: list the artists
LocateAlbum ==
    /\ pc = "LocateAlbum"
    /\ trail' = Append(trail, "LocateAlbum")
    /\ \/ \* musicloc fails
          /\ ret' = Return(NilMusic, Err("user", <<>>))
          /\ aartists' = aartists
          /\ pc' = "returned"
       \/ \* subDirs(mloc) fails
          /\ ret' = Return(NilMusic, Err("io", MusicLoc))
          /\ aartists' = aartists
          /\ pc' = "returned"
       \/ \E as \in ArtistListings :
            /\ aartists' = as
            /\ ret' = ret
            /\ pc' = "albums"
    /\ k' = 0 /\ allalbums' = <<>> /\ allnames' = <<>>
    /\ UNCHANGED <<pattern, byartist, byalbum, la, artists, listed,
                   matchVars, findVars, playVars>>

\* variant of pathsOf: the paths in the opposite order
pathsOfSwapped(aloc, as) == [j \in 1..Len(as) |-> Join(aloc, as[Len(as) + 1 - j].name)]

\* for _, album := range albums: filepath.Join(aloc, album.Name())
pathsOf(aloc, as) == [j \in 1..Len(as) |-> Join(aloc, as[j].name)]

\* one round of LocateAlbum's loop: the albums of the next artist
LocateAlbumStep ==
    /\ pc = "albums"
    /\ k < Len(aartists)
    /\ LET aloc == Join(MusicLoc, aartists[k + 1].name)
       IN  \/ \* subDirs(aloc) fails
              /\ ret' = Return(NilMusic, Err("io", aloc))
              /\ pc' = "returned"
              /\ UNCHANGED <<k, allalbums, allnames, listed>>
           \/ \E as \in AlbumListings :
                /\ allalbums' = allalbums \o as
                /\ allnames' = allnames \o pathsOf(aloc, as)
                /\ listed' = Append(listed, as)
                /\ k' = k + 1
                /\ UNCHANGED <<ret, pc>>
    /\ UNCHANGED <<pattern, byartist, byalbum, la, artists, aartists, trail,
                   matchVars, findVars, playVars>>

\* LocateAlbum, after its loop: find the pattern among all the albums
LocateAlbumFind ==
    /\ pc = "albums"
    /\ k = Len(aartists)
    /\ LET ix == find(allalbums, pattern)
       IN  IF ix < 0
           THEN ret' = Return(NilMusic, Nil) /\ pc' = "returned"
           ELSE IF ix >= Len(allnames)
           THEN ret' = ret /\ pc' = "panic"   \* allnames[i]: index out of range
           ELSE ret' = Return(newAlbum(allnames[ix + 1], FALSE), Nil) /\ pc' = "returned"
    /\ UNCHANGED <<pattern, matchVars, findVars, locateVars, playVars>>

NextLocate ==
    \/ LocateEnter
    \/ LocateArtist
    \/ LocateCheck
    \/ LocateAlbum
    \/ LocateAlbumStep
    \/ LocateAlbumFind

SpecLocate == InitLocate /\ [][NextLocate]_vars

---------------------------------------------------------------------------
(* Play and List of an artist or an album.  The Music object is one a      *)
(* locator built; directories are read, random numbers drawn and the       *)
(* player run when the code does so.                                       *)

ArtistPath == Join(MusicLoc, <<"A", "b">>)
AlbumPath  == Join(ArtistPath, <<"b", "1">>)

cfgVars    == <<m, op, start, tracks>>
artistVars == <<albums, i, sel, ai, listing, shuffled, albumCalls>>
albumVars  == <<cur, astart, songs, ssel, si, songCalls>>
otherVars  == <<pattern, ret, matchVars, findVars, locateVars>>

\* filepath.Ext: from the last dot of the last path element on
Ext(s) ==
    LET dots == {j \in 1..Len(s) :
                    s[j] = "." /\ \A h \in j..Len(s) : s[h] # "/"}
    IN  IF dots = {} THEN <<>>
        ELSE SubSeq(s, CHOOSE j \in dots : \A h \in dots : h <= j, Len(s))

\* trimExt returns s, minus any trailing extension.
trimExt(s) == SubSeq(s, 1, Len(s) - Len(Ext(s)))

\* r.Intn(n): a number in [0, n); which one depends on the seed, the second
\* of the clock, and is left open
Intn(n) == 0..(n - 1)

\* intnRange returns a non-negative int in the range [b,e); r is r.Intn(e-b)
intnRange(r, b, e) == r + b

\* albums[i], albums[n] = albums[n], albums[i], on 1-based positions
swap(s, a, b) == [s EXCEPT ![a] = s[b], ![b] = s[a]]

\* variant of rotate: albums[s:] alone
rotateDrop(s, n) == SubSeq(s, n + 1, Len(s))

\* append(albums[s:len(albums)], albums[0:s]...): the appended elements land
\* behind albums[len-1] or in a new array, never on albums[0:s]
rotate(s, n) == SubSeq(s, n + 1, Len(s)) \o SubSeq(s, 1, n)

\* variant of songsFrom: songs[s+1:]
songsFromNext(s, n) == SubSeq(s, n + 2, Len(s))

\* songs[s:]
songsFrom(s, n) == SubSeq(s, n + 1, Len(s))

\* variant of abortOn: the error is dropped
abortNever(err) == FALSE

\* if err != nil { return err }
abortOn(err) == err # Nil

InitPlay ==
    /\ pc = "call"
    /\ m \in {newArtist(ArtistPath), newAlbum(AlbumPath, FALSE)}
    /\ op \in {"Play", "List"}
    /\ start \in StartPatterns
    /\ tracks \in (IF op = "Play" THEN BOOLEAN ELSE {FALSE})
    /\ albums = <<>> /\ i = 0 /\ sel = 0 /\ ai = 0
    /\ cur = NilMusic /\ astart = <<>> /\ songs = <<>> /\ ssel = 0 /\ si = 0
    /\ aret = Nil /\ perr = Nil /\ running = <<>> /\ stdout = <<>>
    /\ listing = <<>> /\ shuffled = <<>>
    /\ albumCalls = <<>> /\ songCalls = <<>> /\ failed = FALSE
    /\ pattern = <<>>
    /\ IdleMatch /\ IdleFind /\ IdleLocate

\* m.Play(tool, start, tracks) or m.List(start)
Call ==
    /\ pc = "call"
    /\ IF m.kind = "artist"
       THEN pc' = "doPerAlbum" /\ UNCHANGED <<cur, astart>>
       ELSE pc' = "doPerSong" /\ cur' = m /\ astart' = start
    /\ UNCHANGED <<cfgVars, artistVars, songs, ssel, si, songCalls, aret, perr,
                   running, stdout, failed, otherVars>>

\* doPerAlbum: list the albums
ArtistListAlbums ==
    /\ pc = "doPerAlbum"
    /\ \/ \* subDirs(a.Path()) fails
          /\ perr' = Err("io", m.path)
          /\ pc' = "done"
          /\ UNCHANGED <<albums, listing, i>>
       \/ \E as \in AlbumListings :
            /\ albums' = as
            /\ listing' = as
            /\ i' = 0
            /\ pc' = "shuffle"
            /\ perr' = perr
    /\ UNCHANGED <<cfgVars, sel, ai, shuffled, albumCalls, albumVars, aret,
                   running, stdout, failed, otherVars>>

\* doPerAlbum: one round of the shuffle loop
ShuffleStep ==
    /\ pc = "shuffle"
    /\ i < Len(albums)
    /\ \E r \in Intn(Len(albums) - i) :
         LET n == intnRange(r, i, Len(albums))
         IN  albums' = swap(albums, i + 1, n + 1)
    /\ i' = i + 1
    /\ UNCHANGED <<pc, cfgVars, sel, ai, listing, shuffled, albumCalls,
                   albumVars, aret, perr, running, stdout, failed,
                   otherVars>>

\* doPerAlbum: find the start among the shuffled albums and rotate
ArtistFind ==
    /\ pc = "shuffle"
    /\ i = Len(albums)
    /\ shuffled' = albums
    /\ LET s == find(albums, start)
       IN  /\ sel' = s
           /\ IF s < 0
              THEN /\ perr' = Err("no album matching", start)
                   /\ pc' = "done"
                   /\ UNCHANGED <<albums, ai>>
              ELSE /\ albums' = rotate(albums, s)
                   /\ ai' = 0
                   /\ pc' = "albums"
                   /\ perr' = perr
    /\ UNCHANGED <<cfgVars, i, listing, albumCalls, albumVars, aret, running,
                   stdout, failed, otherVars>>

\* doPerAlbum: the callback of artist.List on the next album
ArtistListNext ==
    /\ pc = "albums"
    /\ ai < Len(albums)
    /\ op = "List"
    /\ albumCalls' = Append(albumCalls, albums[ai + 1])
    /\ stdout' = albums[ai + 1].name
    /\ ai' = ai + 1
    /\ UNCHANGED <<pc, cfgVars, albums, i, sel, listing, shuffled, albumVars,
                   aret, perr, running, failed, otherVars>>

\* doPerAlbum: the callback of artist.Play on the next album, up to the
\* entry of newAlbum(p, true).Play(cmd, "", tracks)
ArtistPlayNext ==
    /\ pc = "albums"
    /\ ai < Len(albums)
    /\ op = "Play"
    /\ albumCalls' = Append(albumCalls, albums[ai + 1])
    /\ cur' = newAlbum(Join(m.path, albums[ai + 1].name), TRUE)
    /\ astart' = <<>>
    /\ pc' = "doPerSong"
    /\ UNCHANGED <<cfgVars, albums, i, sel, ai, listing, shuffled, songs, ssel,
                   si, songCalls, aret, perr, running, stdout, failed,
                   otherVars>>

\* doPerAlbum: every album done
ArtistDone ==
    /\ pc = "albums"
    /\ ai = Len(albums)
    /\ perr' = Nil
    /\ pc' = "done"
    /\ UNCHANGED <<cfgVars, artistVars, albumVars, aret, running, stdout, failed, otherVars>>

\* doPerSong: list the songs and find the start among them
AlbumListSongs ==
    /\ pc = "doPerSong"
    /\ \/ \* subFiles(a.Path()) fails
          /\ aret' = Err("io", cur.path)
          /\ pc' = "albumReturned"
          /\ songs' = <<>> /\ ssel' = 0 /\ si' = 0
          /\ listing' = listing
       \/ \E ss \in SongListings :
            LET s == find(ss, astart)
            IN  /\ songs' = ss
                /\ listing' = IF m.kind = "album" THEN ss ELSE listing
                /\ ssel' = s
                /\ si' = 0
                /\ IF s < 0
                   THEN /\ aret' = Err("no song matching", astart)
                        /\ pc' = "albumReturned"
                   ELSE /\ aret' = aret
                        /\ pc' = "songs"
    /\ songCalls' = <<>>
    /\ UNCHANGED <<cfgVars, albums, i, sel, ai, shuffled, albumCalls, cur,
                   astart, perr, running, stdout, failed, otherVars>>

\* doPerSong: the callback of album.List on the next song
SongListNext ==
    /\ pc = "songs"
    /\ si < Len(songsFrom(songs, ssel))
    /\ op = "List"
    /\ LET song == songsFrom(songs, ssel)[si + 1]
       IN  /\ songCalls' = Append(songCalls, song)
           /\ stdout' = song.name
    /\ si' = si + 1
    /\ UNCHANGED <<pc, cfgVars, artistVars, cur, astart, songs, ssel, aret,
                   perr, running, failed, otherVars>>

\* doPerSong: the callback of album.Play on the next song, up to the start
\* of the player
SongPlayNext ==
    /\ pc = "songs"
    /\ si < Len(songsFrom(songs, ssel))
    /\ op = "Play"
    /\ LET song == songsFrom(songs, ssel)[si + 1]
           n    == trimExt(song.name)
           f    == Join(cur.path, song.name)
       IN  /\ songCalls' = Append(songCalls, song)
           /\ stdout' = IF ~tracks THEN stdout
                        ELSE IF cur.showName
                        THEN cur.path[Len(cur.path)] \o <<"/">> \o n
                        ELSE n
           /\ \/ \* c.Run() fails to start the player
                 /\ failed' = TRUE
                 /\ running' = running
                 /\ IF abortOn(Err("player", f))
                    THEN aret' = Err("player", f) /\ pc' = "albumReturned" /\ si' = si
                    ELSE aret' = aret /\ pc' = pc /\ si' = si + 1
              \/ \* the player runs
                 /\ running' = f
                 /\ pc' = "playing"
                 /\ UNCHANGED <<failed, aret, si>>
    /\ UNCHANGED <<cfgVars, artistVars, cur, astart, songs, ssel, perr,
                   otherVars>>

\* c.Run() returns: the player has exited
PlayerExit ==
    /\ pc = "playing"
    /\ running' = <<>>
    /\ \/ \* exit status 0
          /\ si' = si + 1
          /\ pc' = "songs"
          /\ UNCHANGED <<failed, aret>>
       \/ \* another exit status
          /\ failed' = TRUE
          /\ IF abortOn(Err("player", running))
             THEN aret' = Err("player", running) /\ pc' = "albumReturned" /\ si' = si
             ELSE aret' = aret /\ pc' = "songs" /\ si' = si + 1
    /\ UNCHANGED <<cfgVars, artistVars, cur, astart, songs, ssel, songCalls,
                   perr, stdout, otherVars>>

\* doPerSong: every song done
SongsDone ==
    /\ pc = "songs"
    /\ si = Len(songsFrom(songs, ssel))
    /\ aret' = Nil
    /\ pc' = "albumReturned"
    /\ UNCHANGED <<cfgVars, artistVars, albumVars, perr, running, stdout, failed, otherVars>>

\* the album's Play or List has returned: to the caller of m, or to the
\* callback of artist.Play and the loop of doPerAlbum
AlbumReturn ==
    /\ pc = "albumReturned"
    /\ IF m.kind = "album"
       THEN perr' = aret /\ pc' = "done" /\ ai' = ai
       ELSE IF abortOn(aret)
       THEN perr' = aret /\ pc' = "done" /\ ai' = ai
       ELSE perr' = perr /\ pc' = "albums" /\ ai' = ai + 1
    \* the locals of the call are gone
    /\ cur' = NilMusic /\ astart' = <<>> /\ songs' = <<>> /\ ssel' = 0 /\ si' = 0
    /\ songCalls' = <<>> /\ aret' = Nil
    /\ UNCHANGED <<cfgVars, albums, i, sel, listing, shuffled, albumCalls,
                   running, stdout, failed, otherVars>>

Next ==
    \/ Call
    \/ ArtistListAlbums
    \/ ShuffleStep
    \/ ArtistFind
    \/ ArtistListNext
    \/ ArtistPlayNext
    \/ ArtistDone
    \/ AlbumListSongs
    \/ SongListNext
    \/ SongPlayNext
    \/ PlayerExit
    \/ SongsDone
    \/ AlbumReturn

Spec == InitPlay /\ [][Next]_vars

---------------------------------------------------------------------------
(* The matcher's claims (SpecMatch). *)

RECURSIVE Normalized(_)
\* s lowercased, with only its letters, digits and spaces kept
Normalized(s) ==
    IF s = <<>> THEN <<>>
    ELSE LET r == ToLowerRune(Head(s))
         IN  (IF IsLetter(r) \/ IsDigit(r) \/ IsSpace(r) THEN <<r>> ELSE <<>>)
             \o Normalized(Tail(s))

\* s = u \o p \o v for some u and v
IsSubstring(p, s) ==
    \E a \in 0..Len(s) : \E b \in a..Len(s) : SubSeq(s, a + 1, b) = p

---------------------------------------------------------------------------
(* The selector's claims (SpecFind). *)

Scores == [j \in 1..Len(fi) |-> match(pattern, fi[j].name)]
Matching == {j \in 1..Len(fi) : Scores[j] >= 0}

\* C2: find returns the failure sentinel or an index into the entries, for
\* every entry list and every pattern, the empty ones included.
C2_FindInRange ==
    pc = "found" => (loc = -1 \/ (0 <= loc /\ loc < Len(fi)))

\* C5: for a non-empty pattern, find returns -1 if and only if no entry
\* matches; it returns a valid index whenever some entry matches.
C5_SentinelIffNoMatch ==
    (pc = "found" /\ pattern # <<>>) =>
        /\ (loc = -1) <=> (Matching = {})
        /\ Matching # {} => (0 <= loc /\ loc < Len(fi))

\* C6: for a non-empty pattern with a matching entry, find returns the
\* first index among the entries of minimum score.
C6_FirstOfMinimumScore ==
    (pc = "found" /\ pattern # <<>> /\ Matching # {}) =>
        /\ loc + 1 \in Matching
        /\ \A j \in Matching : Scores[loc + 1] <= Scores[j]
        /\ \A j \in Matching : j < loc + 1 => Scores[loc + 1] < Scores[j]

---------------------------------------------------------------------------
(* The locators' claims (SpecLocate). *)

ArtistEnabled == byartist /\ ~byalbum
Called(f) == \E j \in 1..Len(trail) : trail[j] = f

RECURSIVE FlatAlbums(_)
\* the albums of the first n artists, artist by artist
FlatAlbums(n) == IF n = 0 THEN <<>> ELSE FlatAlbums(n - 1) \o listed[n]

RECURSIVE FlatPaths(_)
\* <music>/<artist>/<album> for the albums of the first n artists
FlatPaths(n) ==
    IF n = 0 THEN <<>>
    ELSE FlatPaths(n - 1) \o
         [j \in 1..Len(listed[n]) |->
             MusicLoc \o <<aartists[n].name, listed[n][j].name>>]

\* C10: in LocateAlbum the album list and the path list stay aligned: after
\* any number of artists both have the same length and the path at index i
\* is <music>/<artist>/<album> of the album at index i, artist by artist;
\* the album returned has the path of the entry find chose and does not
\* show its name; a failed album listing is returned as the error.
C10_Aligned ==
    /\ Len(listed) = k
    /\ k <= Len(aartists)
    /\ Len(allalbums) = Len(allnames)
    /\ allalbums = FlatAlbums(k)
    /\ allnames = FlatPaths(k)
    /\ (pc = "returned" /\ ret.m.kind = "album") =>
          LET ix == find(FlatAlbums(k), pattern)
          IN  /\ k = Len(aartists)
              /\ 0 <= ix /\ ix < Len(allalbums)
              /\ ret.m = newAlbum(FlatPaths(k)[ix + 1], FALSE)
              /\ ret.m.path[Len(ret.m.path)] = allalbums[ix + 1].name
              /\ ret.err = Nil
    /\ (pc = "returned" /\ Called("LocateAlbum") /\ k < Len(aartists)
           /\ ret.err.kind # "user" /\ ret.err # Err("io", MusicLoc)) =>
          ret = Return(NilMusic, Err("io", Join(MusicLoc, aartists[k + 1].name)))

\* the album found is one of the second artist, after a first with albums
C10_Witness ==
    /\ pc = "returned"
    /\ ret.m.kind = "album"
    /\ k = 2
    /\ Len(listed[1]) >= 2
    /\ find(allalbums, pattern) >= Len(listed[1])

\* The consequence C2 draws: LocateArtist and LocateAlbum index their
\* listings within bounds.  It fails with C2_FindInRange: for the empty
\* pattern and an empty listing find returns 0 and the locator panics.
LocatorsInRange == pc # "panic"

---------------------------------------------------------------------------
(* The sequencers' claims (Spec). *)

\* s turned left by n: s[n], s[n+1], ..., s[Len-1], s[0], ..., s[n-1]
RotatedLeft(s, n) == [j \in 1..Len(s) |-> s[((j - 1 + n) % Len(s)) + 1]]

\* s from n on: s[n], s[n+1], ..., s[Len-1]
SuffixFrom(s, n) == [j \in 1..(Len(s) - n) |-> s[j + n]]

IsPrefix(p, s) == Len(p) <= Len(s) /\ \A j \in 1..Len(p) : p[j] = s[j]

Count(s, x) == Cardinality({j \in 1..Len(s) : s[j] = x})
SameMultiset(s, u) ==
    /\ Len(s) = Len(u)
    /\ \A x \in Range(s) \cup Range(u) : Count(s, x) = Count(u, x)

NoneMatches(entries, pat) ==
    \A j \in 1..Len(entries) : match(pat, entries[j].name) < 0

\* the songs are listed and a start was found among them
InSongLoop ==
    \/ pc \in {"songs", "playing"}
    \/ pc = "albumReturned" /\ aret.kind \in {"nil", "player"}

TopListed ==
    /\ pc \notin {"call", "doPerAlbum", "doPerSong"}
    /\ ~(pc = "done" /\ perr = Err("io", m.path))
    /\ ~(pc = "albumReturned" /\ m.kind = "album" /\ aret = Err("io", m.path))

InAlbumLoop ==
    /\ m.kind = "artist"
    /\ \/ pc \in {"albums", "doPerSong", "songs", "playing", "albumReturned"}
       \/ pc = "done" /\ perr.kind \notin {"io", "no album matching"}
       \/ pc = "done" /\ perr.kind = "io" /\ perr.arg # m.path

\* C4: doPerAlbum hands its callback a left rotation of a permutation of
\* the albums listed: the shuffled list has the albums of the listing, each
\* as often; the first album handed over is the one find chose in the
\* shuffled list, the others follow in the cyclic order of that list, each
\* once, until all are done or a callback fails.
C4_RotatedShuffle ==
    /\ (m.kind = "artist" /\ pc = "shuffle") => SameMultiset(albums, listing)
    /\ InAlbumLoop =>
          /\ SameMultiset(shuffled, listing)
          /\ sel = find(shuffled, start)
          /\ 0 <= sel /\ sel <= Len(shuffled)
          /\ albums = RotatedLeft(shuffled, sel)
          /\ IsPrefix(albumCalls, RotatedLeft(shuffled, sel))
          /\ albumCalls # <<>> => albumCalls[1] = shuffled[sel + 1]
          /\ (pc = "done" /\ perr = Nil) =>
                /\ albumCalls = RotatedLeft(shuffled, sel)
                /\ SameMultiset(albumCalls, listing)

\* three albums, shuffled into another order, played from the last of them
C4_Witness ==
    /\ pc = "done"
    /\ m.kind = "artist"
    /\ op = "Play"
    /\ perr = Nil
    /\ Len(listing) = 3
    /\ shuffled # listing
    /\ sel = 2
    /\ albumCalls = <<shuffled[3], shuffled[1], shuffled[2]>>

\* a step that hands a song to the player
Invokes == op = "Play" /\ Len(songCalls') = Len(songCalls) + 1

\* C8: playing is sequential and stops at the first failure: the player is
\* started only when no player runs; once an invocation has failed (it did
\* not start, or exited with a status other than 0) no song and no album
\* is handed on, of this album or of a later album of the artist, and the
\* error of the player is what Play returns.
C8_SequentialAbort ==
    [][ /\ Invokes => (running = <<>> /\ ~failed)
        /\ (running' # <<>>) <=> (pc' = "playing")
        /\ (running # <<>>) => (running' = <<>> \/ UNCHANGED vars)
        /\ failed =>
              /\ failed'
              /\ running' = <<>>
              /\ albumCalls' = albumCalls
              /\ ~Invokes
        /\ failed' =>
              /\ pc' \in {"albumReturned", "done"}
              /\ pc' = "albumReturned" => aret'.kind = "player"
              /\ pc' = "done" => perr'.kind = "player"
      ]_vars

\* the second song of an artist's first album failed, albums were left
C8_Witness ==
    /\ pc = "done"
    /\ m.kind = "artist"
    /\ failed
    /\ perr.kind = "player"
    /\ Len(albums) = 3
    /\ Len(albumCalls) = 1

=============================================================================
